---- MODULE Spec2Model ----
(***************************************************************************)
(* Corrupter: a streaming file corrupter (src/code/Corrupter.py).          *)
(* main() validates the arguments and calls corrupt_file(), which reads    *)
(* the source chunk by chunk, walks every chunk with one random trial per  *)
(* visited position, writes the chunk to the destination and counts.       *)
(***************************************************************************)
EXTENDS Integers, Sequences, FiniteSets, TLC

(* ---------------- bounds of the model ---------------- *)
MaxLen == 3          \* longest source file, in bytes
BUFFER_SIZE == 2     \* chunk capacity (4 MiB in the program, scaled down)
MaxBurst == 3        \* largest --burst N
ProbScale == 2       \* probabilities and random() are multiples of 1/ProbScale

(* ---------------- value domains ---------------- *)
ByteSamples == {0, 255}              \* bytes a source file is made of
RandBytes == {0, 90}                 \* sampled results of random.randint(0, 255)
BitIndexes == {0, 3, 7}              \* sampled results of random.randint(0, 7)
RandomRange == 0..(ProbScale - 1)    \* random.random() in [0,1), in 1/ProbScale
Probabilities == 0..ProbScale        \* probability in [0,1], in 1/ProbScale
Modes == {"replace", "bitflip", "zero", "burst"}
InputFile == "in.bin"
OutputFiles == {"", "in.bin", "./in.bin"}
OldDest == <<90>>                    \* contents of a pre-existing destination

Min(a, b) == IF a < b THEN a ELSE b

(* os.path.abspath: normalises a relative path against the working dir *)
abspath(p) ==
  CASE p = "in.bin" -> "/cwd/in.bin"
    [] p = "./in.bin" -> "/cwd/in.bin"
    [] p = "in_corrupted.bin" -> "/cwd/in_corrupted.bin"
    [] OTHER -> p

(* base, ext = os.path.splitext(input); f"{base}_corrupted{ext}" *)
derived_output(p) ==
  CASE p = "in.bin" -> "in_corrupted.bin"
    [] p = "./in.bin" -> "./in_corrupted.bin"
    [] OTHER -> p

FilePaths == {"/cwd/in.bin", "/cwd/in_corrupted.bin"}

(* ---------------- byte arithmetic ---------------- *)
Pow2(k) == IF k = 0 THEN 1 ELSE
           IF k = 1 THEN 2 ELSE
           IF k = 2 THEN 4 ELSE
           IF k = 3 THEN 8 ELSE
           IF k = 4 THEN 16 ELSE
           IF k = 5 THEN 32 ELSE
           IF k = 6 THEN 64 ELSE 128

(* a ^ b on bytes, bit by bit from the least significant one *)
RECURSIVE Xor(_, _)
Xor(a, b) ==
  IF a = 0 /\ b = 0 THEN 0
  ELSE (((a % 2) + (b % 2)) % 2) + 2 * Xor(a \div 2, b \div 2)

(* 1 << k *)
ShiftLeft1(k) == Pow2(k)

VARIABLES
  args,             \* parsed command line (argparse namespace)
  fs,               \* the file system: path -> [exists, data]
  pc,               \* position of the process
  mode,             \* main: mode
  output_path,      \* main: output_path
  total_size,       \* corrupt_file: total_size
  processed_bytes,  \* corrupt_file: processed_bytes
  corrupted_bytes,  \* corrupt_file: corrupted_bytes
  fin_pos,          \* read offset of fin
  chunk,            \* corrupt_file: mutable_chunk
  i,                \* corrupt_file: i
  hits,             \* per file position, how often it was counted corrupted
  draws,            \* results the random module returned in this run
  stream,           \* results of the generator seeded with args.seed, as far as known
  seeded,           \* random.seed(args.seed) was called in this process
  stderr,           \* messages on the error stream
  summary,          \* the summary block has been printed
  err,              \* failure kind of the run
  exit_code,        \* exit code of the process (-1 while running)
  run_no,           \* 1 for the first run, 2 for the repeated run
  prev              \* results of the first run

vars == <<args, fs, pc, mode, output_path, total_size, processed_bytes,
          corrupted_bytes, fin_pos, chunk, i, hits, draws, stream, seeded,
          stderr, summary, err, exit_code, run_no, prev>>

Seqs(S, n) == UNION {[1..k -> S] : k \in 0..n}

NoFile == [exists |-> FALSE, data |-> <<>>]
File(d) == [exists |-> TRUE, data |-> d]

InPath == abspath(args.input_file)
Source == fs[InPath].data

ArgSets ==
  {[input_file |-> InputFile, output_file |-> o, probability |-> p,
    bitflip |-> (m = "bitflip"), zero |-> (m = "zero"), burst |-> b, seed |-> s] :
      o \in OutputFiles, p \in Probabilities, m \in Modes,
      b \in {{}} \cup {{n} : n \in 0..MaxBurst}, s \in {{}, {42}}}

(* argparse: the three mode selectors are mutually exclusive *)
ValidArgs == {a \in ArgSets :
                /\ (a.burst # {}) => (~a.bitflip /\ ~a.zero)
                /\ ~(a.bitflip /\ a.zero)}

Burst(a) == CHOOSE n \in a.burst : TRUE

Init ==
  /\ args \in ValidArgs
  /\ \E src \in {NoFile} \cup {File(d) : d \in Seqs(ByteSamples, MaxLen)},
        dst \in {NoFile, File(OldDest)} :
       fs = [p \in FilePaths |->
               IF p = "/cwd/in.bin" THEN src ELSE dst]
  /\ pc = "main"
  /\ mode = "replace"
  /\ output_path = ""
  /\ total_size = 0
  /\ processed_bytes = 0
  /\ corrupted_bytes = 0
  /\ fin_pos = 0
  /\ chunk = <<>>
  /\ i = 0
  /\ hits = [p \in 1..Len(fs["/cwd/in.bin"].data) |-> 0]
  /\ draws = <<>>
  /\ stream = <<>>
  /\ seeded = FALSE
  /\ stderr = <<>>
  /\ summary = FALSE
  /\ err = "none"
  /\ exit_code = -1
  /\ run_no = 1
  /\ prev = [out |-> <<>>, corrupted |-> 0, draws |-> <<>>]

(* ---------------- the random module ---------------- *)
Draw(kind, val) == [kind |-> kind, val |-> val]

(* The generator is deterministic: once seeded, the k-th result of a run  *)
(* that asked for the same results so far is the one the seed fixes. An   *)
(* unseeded generator starts from entropy, and any result is possible.    *)
Consistent(ds) ==
  LET all == draws \o ds IN
  seeded =>
    \A k \in (Len(draws) + 1)..Len(all) :
      (/\ k <= Len(stream)
       /\ SubSeq(all, 1, k - 1) = SubSeq(stream, 1, k - 1)
       /\ all[k].kind = stream[k].kind) => all[k].val = stream[k].val

Consume(ds) ==
  LET all == draws \o ds IN
  /\ draws' = all
  /\ stream' = IF /\ seeded
                  /\ Len(stream) < Len(all)
                  /\ SubSeq(all, 1, Len(stream)) = stream
               THEN all ELSE stream

(* mutation: the trial compares with <= *)
TriggeredInclusive(r, probability) == r <= probability

(* random.random() < probability *)
Triggered(r, probability) == r < probability

(* ---------------- main ---------------- *)
SelectedMode(a) ==
  IF a.bitflip THEN "bitflip"
  ELSE IF a.zero THEN "zero"
  ELSE IF a.burst # {} THEN "burst"
  ELSE "replace"

BurstRejected(a) == ~a.bitflip /\ ~a.zero /\ a.burst # {} /\ Burst(a) <= 0

ResolvedOutput(a) ==
  IF a.output_file = "" THEN derived_output(a.input_file) ELSE a.output_file

SamePath(a) == abspath(a.input_file) = abspath(ResolvedOutput(a))

(* mutation: random.seed is never called *)
SeedIgnored(a) == FALSE

SeedApplied(a) == a.seed # {}

RunVars == <<total_size, processed_bytes, corrupted_bytes, fin_pos, chunk, i, hits>>

Main ==
  /\ pc = "main"
  /\ seeded' = SeedApplied(args)
  /\ IF BurstRejected(args)
     THEN /\ stderr' = Append(stderr, "BurstNotPositive")
          /\ err' = "InvalidArgument"
          /\ exit_code' = 1
          /\ pc' = "exited"
          /\ UNCHANGED <<mode, output_path>>
     ELSE IF SamePath(args)
     THEN /\ stderr' = Append(stderr, "SamePath")
          /\ err' = "InvalidArgument"
          /\ exit_code' = 1
          /\ pc' = "exited"
          /\ mode' = SelectedMode(args)
          /\ output_path' = ResolvedOutput(args)
     ELSE /\ mode' = SelectedMode(args)
          /\ output_path' = ResolvedOutput(args)
          /\ pc' = "getsize"
          /\ UNCHANGED <<stderr, err, exit_code>>
  /\ UNCHANGED <<args, fs, RunVars, draws, stream, summary, run_no, prev>>

(* ---------------- corrupt_file ---------------- *)
OutPath == abspath(output_path)
burst_length == IF args.burst = {} THEN 0 ELSE Burst(args)

Fail(kind) ==
  /\ stderr' = Append(stderr, kind)
  /\ err' = kind
  /\ exit_code' = 0
  /\ pc' = "exited"

(* mutation: a missing source is not noticed while sizing *)
GetSizeUnchecked ==
  /\ pc = "getsize"
  /\ total_size' = Len(Source)
  /\ pc' = "open"
  /\ UNCHANGED <<args, fs, mode, output_path, processed_bytes, corrupted_bytes,
                 fin_pos, chunk, i, hits, draws, stream, seeded, summary,
                 stderr, err, exit_code, run_no, prev>>

GetSize ==
  /\ pc = "getsize"
  /\ IF fs[InPath].exists
     THEN /\ total_size' = Len(Source)
          /\ pc' = "open"
          /\ UNCHANGED <<stderr, err, exit_code>>
     ELSE /\ Fail("SourceNotFound")
          /\ UNCHANGED total_size
  /\ UNCHANGED <<args, fs, mode, output_path, processed_bytes, corrupted_bytes,
                 fin_pos, chunk, i, hits, draws, stream, seeded, summary,
                 run_no, prev>>

Open ==
  /\ pc = "open"
  /\ \/ /\ fs[InPath].exists
        /\ fs' = [fs EXCEPT ![OutPath] = File(<<>>)]
        /\ fin_pos' = 0
        /\ pc' = "read"
        /\ UNCHANGED <<stderr, err, exit_code>>
     \/ /\ Fail("IOFailure")
        /\ UNCHANGED <<fs, fin_pos>>
  /\ UNCHANGED <<args, mode, output_path, total_size, processed_bytes,
                 corrupted_bytes, chunk, i, hits, draws, stream, seeded,
                 summary, run_no, prev>>

ReadChunk(data, pos) == SubSeq(data, pos + 1, Min(pos + BUFFER_SIZE, Len(data)))

Read ==
  /\ pc = "read"
  /\ \/ LET got == ReadChunk(Source, fin_pos) IN
        /\ fin_pos' = fin_pos + Len(got)
        /\ IF got = <<>>
           THEN /\ pc' = "summary"
                /\ UNCHANGED <<chunk, i>>
           ELSE /\ chunk' = got
                /\ i' = 0
                /\ pc' = "walk"
        /\ UNCHANGED <<stderr, err, exit_code>>
     \/ /\ Fail("IOFailure")
        /\ UNCHANGED <<fin_pos, chunk, i>>
  /\ UNCHANGED <<args, fs, mode, output_path, total_size, processed_bytes,
                 corrupted_bytes, hits, draws, stream, seeded, summary,
                 run_no, prev>>

(* mutation: corrupted_bytes += 1 sits outside the bounds check *)
RECURSIVE BurstLoopUnclamped(_, _, _, _, _, _)
BurstLoopUnclamped(buf, at, n, j, vals, count) ==
  IF j >= n THEN [buf |-> buf, count |-> count]
  ELSE LET current_pos == at + j IN
       IF current_pos < Len(buf)
       THEN BurstLoopUnclamped([buf EXCEPT ![current_pos + 1] = vals[j + 1]],
                               at, n, j + 1, vals, count + 1)
       ELSE BurstLoopUnclamped(buf, at, n, j + 1, vals, count + 1)

(* for j in range(burst_length): the positions inside the buffer are *)
(* overwritten with vals, in order, and counted                      *)
RECURSIVE BurstLoop(_, _, _, _, _, _)
BurstLoop(buf, at, n, j, vals, count) ==
  IF j >= n THEN [buf |-> buf, count |-> count]
  ELSE LET current_pos == at + j IN
       IF current_pos < Len(buf)
       THEN BurstLoop([buf EXCEPT ![current_pos + 1] = vals[count + 1]],
                      at, n, j + 1, vals, count + 1)
       ELSE BurstLoop(buf, at, n, j + 1, vals, count)

InBounds(buf, at, n) == Min(at + n, Len(buf)) - at

(* mutation: |= instead of ^= *)
BitFlipOr(b, bit_to_flip) ==
  IF (b \div ShiftLeft1(bit_to_flip)) % 2 = 1 THEN b ELSE b + ShiftLeft1(bit_to_flip)

BitFlip(b, bit_to_flip) == Xor(b, ShiftLeft1(bit_to_flip))

(* hits after positions at .. at+count-1 of the chunk were counted *)
Counted(at, count) ==
  [p \in DOMAIN hits |->
     IF p - processed_bytes - 1 \in at..(at + count - 1)
     THEN hits[p] + 1 ELSE hits[p]]

(* mutation: the walk index advances one position too far *)
NextIndexSkip(at, step) == at + step + 1

(* i += 1, i += burst_length *)
NextIndex(at, step) == at + step

Step(ds, buf, next_i, count) ==
  /\ Consistent(ds)
  /\ Consume(ds)
  /\ chunk' = buf
  /\ i' = next_i
  /\ corrupted_bytes' = corrupted_bytes + count
  /\ hits' = Counted(i, count)

Trial ==
  /\ pc = "walk"
  /\ i < Len(chunk)
  /\ \E r \in RandomRange :
       IF ~Triggered(r, args.probability)
       THEN Step(<<Draw("random", r)>>, chunk, NextIndex(i, 1), 0)
       ELSE \/ /\ mode = "burst"
               /\ \E vals \in [1..InBounds(chunk, i, burst_length) -> RandBytes] :
                    LET res == BurstLoop(chunk, i, burst_length, 0, vals, 0) IN
                    Step(<<Draw("random", r)>> \o
                           [k \in 1..Len(vals) |-> Draw("byte", vals[k])],
                         res.buf, NextIndex(i, burst_length), res.count)
            \/ /\ mode = "bitflip"
               /\ \E bit_to_flip \in BitIndexes :
                    Step(<<Draw("random", r), Draw("bit", bit_to_flip)>>,
                         [chunk EXCEPT ![i + 1] = BitFlip(chunk[i + 1], bit_to_flip)],
                         NextIndex(i, 1), 1)
            \/ /\ mode = "zero"
               /\ Step(<<Draw("random", r)>>, [chunk EXCEPT ![i + 1] = 0],
                       NextIndex(i, 1), 1)
            \/ /\ mode = "replace"
               /\ \E v \in RandBytes :
                    Step(<<Draw("random", r), Draw("byte", v)>>,
                         [chunk EXCEPT ![i + 1] = v], NextIndex(i, 1), 1)
  /\ UNCHANGED <<args, fs, pc, mode, output_path, total_size, processed_bytes,
                 fin_pos, seeded, stderr, summary, err, exit_code, run_no, prev>>

(* mutation: the last byte of every chunk is not written *)
WrittenDropLast(old, buf) == old \o SubSeq(buf, 1, Len(buf) - 1)

Written(old, buf) == old \o buf

Write ==
  /\ pc = "walk"
  /\ i >= Len(chunk)
  /\ \/ /\ fs' = [fs EXCEPT ![OutPath] = File(Written(fs[OutPath].data, chunk))]
        /\ processed_bytes' = processed_bytes + Len(chunk)
        /\ pc' = "read"
        /\ UNCHANGED <<stderr, err, exit_code>>
     \/ /\ \E k \in 0..(Len(chunk) - 1) :
             fs' = [fs EXCEPT ![OutPath] =
                      File(fs[OutPath].data \o SubSeq(chunk, 1, k))]
        /\ Fail("IOFailure")
        /\ UNCHANGED processed_bytes
  /\ UNCHANGED <<args, mode, output_path, total_size, corrupted_bytes, fin_pos,
                 chunk, i, hits, draws, stream, seeded, summary, run_no, prev>>

(* the summary is printed, corrupt_file and main return, the process exits *)
Summary ==
  /\ pc = "summary"
  /\ summary' = TRUE
  /\ exit_code' = 0
  /\ pc' = "exited"
  /\ UNCHANGED <<args, fs, mode, output_path, RunVars, draws, stream, seeded,
                 stderr, err, run_no, prev>>

(* the same command line is run again, in a new process *)
Rerun ==
  /\ pc = "exited"
  /\ run_no = 1
  /\ err = "none"
  /\ args.seed # {}
  /\ prev' = [out |-> fs[OutPath].data, corrupted |-> corrupted_bytes,
              draws |-> draws]
  /\ run_no' = 2
  /\ pc' = "main"
  /\ mode' = "replace"
  /\ output_path' = ""
  /\ total_size' = 0
  /\ processed_bytes' = 0
  /\ corrupted_bytes' = 0
  /\ fin_pos' = 0
  /\ chunk' = <<>>
  /\ i' = 0
  /\ hits' = [p \in DOMAIN hits |-> 0]
  /\ draws' = <<>>
  /\ seeded' = FALSE
  /\ stderr' = <<>>
  /\ summary' = FALSE
  /\ exit_code' = -1
  /\ UNCHANGED <<args, fs, stream, err>>

Next == Main \/ GetSize \/ Open \/ Read \/ Trial \/ Write \/ Summary

Spec == Init /\ [][Next]_vars

NextTwice == Next \/ Rerun

(* runs made with -s/--seed *)
InitSeeded == Init /\ args.seed # {}

SpecTwice == InitSeeded /\ [][NextTwice]_vars


(* ======================= properties ======================= *)
Dest == fs[OutPath].data
Done == pc = "exited" /\ summary
One == ProbScale
Positions == DOMAIN hits
HitPositions == {p \in Positions : hits[p] >= 1}
Differing(a, b) == {p \in 1..Len(a) : a[p] # b[p]}
BitAt(b, k) == (b \div Pow2(k)) % 2
DiffBits(a, b) == Cardinality({k \in 0..7 : BitAt(a, k) # BitAt(b, k)})
IsPrefix(a, b) == Len(a) <= Len(b) /\ SubSeq(b, 1, Len(a)) = a

RECURSIVE SumUpTo(_)
SumUpTo(n) == IF n = 0 THEN 0 ELSE hits[n] + SumUpTo(n - 1)
SumHits == SumUpTo(Len(Source))

(* C1: a run that completes writes a destination exactly as long as the   *)
(* source; while streaming, the destination holds exactly the bytes of    *)
(* the chunks processed so far and the chunk being walked keeps the       *)
(* length it was read with, in every mode, clamped bursts included.       *)
LengthPreservation ==
  /\ Done => Len(Dest) = Len(Source)
  /\ pc \in {"read", "summary"} =>
       Len(Dest) = processed_bytes /\ fin_pos = processed_bytes
  /\ pc = "walk" =>
       /\ Len(Dest) = processed_bytes
       /\ Len(chunk) = fin_pos - processed_bytes
       /\ Len(chunk) = Min(BUFFER_SIZE, Len(Source) - processed_bytes)

LengthPreservationWitness ==
  /\ Done
  /\ mode = "burst"
  /\ burst_length > BUFFER_SIZE
  /\ Len(Source) = MaxLen
  /\ corrupted_bytes > 0
  /\ Len(Dest) = MaxLen

(* C2: a second run of the same seeded command line on the same input     *)
(* makes the draws of the first run in the same order, and ends with the  *)
(* same output bytes and the same corrupted_bytes.                        *)
Determinism ==
  run_no = 2 =>
    /\ IsPrefix(draws, prev.draws)
    /\ Done => /\ draws = prev.draws
               /\ Dest = prev.out
               /\ corrupted_bytes = prev.corrupted

DeterminismWitness ==
  /\ run_no = 2
  /\ Done
  /\ args.probability > 0
  /\ args.probability < One
  /\ corrupted_bytes > 0
  /\ corrupted_bytes < Len(Source)
  /\ Dest # Source

(* C3: with probability 0 no trial triggers in any mode: corrupted_bytes  *)
(* stays 0 and a completed run's output is the input, byte for byte.      *)
ZeroProbability ==
  args.probability = 0 =>
    /\ corrupted_bytes = 0
    /\ Done => Dest = Source

ZeroProbabilityWitness ==
  /\ args.probability = 0
  /\ Done
  /\ mode = "burst"
  /\ Len(Source) = MaxLen
  /\ Len(draws) = MaxLen

(* C4: with probability 1 in replace, bitflip or zero mode every position *)
(* is visited and counted exactly once, so a completed run has            *)
(* corrupted_bytes = processed_bytes = the input length.                  *)
FullProbability ==
  (args.probability = One /\ mode \in {"replace", "bitflip", "zero"} /\ Done) =>
    /\ corrupted_bytes = processed_bytes
    /\ processed_bytes = Len(Source)
    /\ \A p \in Positions : hits[p] = 1

FullProbabilityWitness ==
  /\ args.probability = One
  /\ mode = "bitflip"
  /\ Done
  /\ Len(Source) = MaxLen
  /\ corrupted_bytes = MaxLen

(* C5: burst mode. With probability 1 corrupted_bytes never exceeds the   *)
(* input length and is the number of overwritten positions, none of them  *)
(* overwritten twice; a triggered burst at i overwrites exactly the       *)
(* positions i .. min(i+N, len)-1 of its chunk with the drawn bytes,      *)
(* leaves every other position alone and advances i by N.                 *)
BurstCount ==
  (mode = "burst" /\ args.probability = One) =>
    /\ corrupted_bytes <= Len(Source)
    /\ corrupted_bytes = SumHits
    /\ \A p \in Positions : hits[p] <= 1
    /\ Done => corrupted_bytes = Cardinality(HitPositions)

BurstStep ==
  (/\ pc = "walk"
   /\ mode = "burst"
   /\ Len(draws') > Len(draws)
   /\ draws'[Len(draws) + 1].val < args.probability) =>
    LET n == burst_length
        hi == Min(i + n, Len(chunk))
    IN
    /\ i' = i + n
    /\ Len(chunk') = Len(chunk)
    /\ corrupted_bytes' = corrupted_bytes + (hi - i)
    /\ Len(draws') = Len(draws) + 1 + (hi - i)
    /\ \A q \in 0..(Len(chunk) - 1) :
         IF q >= i /\ q < hi
         THEN /\ chunk'[q + 1] = draws'[Len(draws) + 2 + (q - i)].val
              /\ hits'[processed_bytes + q + 1] = hits[processed_bytes + q + 1] + 1
         ELSE /\ chunk'[q + 1] = chunk[q + 1]
              /\ hits'[processed_bytes + q + 1] = hits[processed_bytes + q + 1]
    /\ \A p \in Positions :
         (p <= processed_bytes \/ p > processed_bytes + Len(chunk)) =>
           hits'[p] = hits[p]

BurstBounds == []BurstCount /\ [][BurstStep]_vars

BurstBoundsWitness ==
  /\ mode = "burst"
  /\ args.probability = One
  /\ Done
  /\ burst_length = BUFFER_SIZE
  /\ Len(Source) = MaxLen
  /\ corrupted_bytes = MaxLen

(* C6: in bitflip mode every position counted as corrupted is counted     *)
(* once and holds a byte that differs from the input byte in exactly one  *)
(* bit; every other position holds the input byte.                        *)
BitFlipByte(p, out) ==
  /\ out \in 0..255
  /\ hits[p] \in {0, 1}
  /\ hits[p] = 1 => DiffBits(Source[p], out) = 1
  /\ hits[p] = 0 => out = Source[p]

BitFlipInvariant ==
  mode = "bitflip" =>
    /\ Done => \A p \in Positions : BitFlipByte(p, Dest[p])
    /\ pc = "walk" =>
         \A q \in 1..Len(chunk) : BitFlipByte(processed_bytes + q, chunk[q])

BitFlipInvariantWitness ==
  /\ mode = "bitflip"
  /\ Done
  /\ Len(Source) = MaxLen
  /\ \E p \in Positions : hits[p] = 1 /\ Source[p] = 255 /\ Dest[p] = 127
  /\ \E p \in Positions : hits[p] = 1 /\ Source[p] = 0 /\ Dest[p] = 8
  /\ \E p \in Positions : hits[p] = 0

(* C7 as stated: corrupted_bytes <= processed_bytes in every state.       *)
CounterInvariantAlways == corrupted_bytes <= processed_bytes

(* C7, amended: corrupted_bytes never exceeds the number of bytes read,   *)
(* and corrupted_bytes <= processed_bytes whenever every chunk read has   *)
(* been written and counted.                                              *)
CounterInvariantAtChunkBoundaries ==
  /\ corrupted_bytes <= fin_pos
  /\ fin_pos <= processed_bytes + Len(chunk)
  /\ fin_pos = processed_bytes => corrupted_bytes <= processed_bytes
  /\ (pc \in {"main", "getsize", "open", "read", "summary"} \/ Done) =>
       fin_pos = processed_bytes

CounterInvariantWitness ==
  /\ pc = "read"
  /\ processed_bytes = BUFFER_SIZE
  /\ corrupted_bytes = BUFFER_SIZE
  /\ mode = "burst"
  /\ burst_length > BUFFER_SIZE

(* C8 as stated: at completion corrupted_bytes is the number of positions *)
(* at which the output differs from the input.                            *)
CorruptedCountsAltered == Done => corrupted_bytes = Cardinality(Differing(Source, Dest))

(* C8, amended: at completion corrupted_bytes is the number of positions  *)
(* a triggered trial overwrote, each once; every differing position is    *)
(* among them, and in bitflip mode they all differ.                       *)
CorruptedCountsOverwritten ==
  Done =>
    /\ corrupted_bytes = Cardinality(HitPositions)
    /\ \A p \in Positions : hits[p] <= 1
    /\ Differing(Source, Dest) \subseteq HitPositions
    /\ mode = "bitflip" => Differing(Source, Dest) = HitPositions

CorruptedCountsWitness ==
  /\ Done
  /\ mode = "zero"
  /\ Len(Source) = MaxLen
  /\ corrupted_bytes = MaxLen
  /\ Cardinality(Differing(Source, Dest)) = 1

(* C9: when the source does not exist the run fails with SourceNotFound   *)
(* while sizing it: no step changes any file, the destination is never    *)
(* opened, nothing is streamed and no summary is printed.                 *)
MissingSourceState ==
  ~fs[InPath].exists =>
    /\ pc \in {"main", "getsize", "exited"}
    /\ ~summary
    /\ processed_bytes = 0
    /\ (pc = "exited" /\ err # "InvalidArgument") =>
         /\ err = "SourceNotFound"
         /\ stderr = <<"SourceNotFound">>

MissingSourceStep == ~fs[InPath].exists => fs' = fs

MissingSource == []MissingSourceState /\ [][MissingSourceStep]_vars

MissingSourceWitness ==
  /\ ~fs[InPath].exists
  /\ pc = "exited"
  /\ err = "SourceNotFound"
  /\ fs[OutPath] = File(OldDest)

(* C10: the exit code is 0 only after a successful run; every failure     *)
(* ends with a non-zero exit code and a message on the error stream.      *)
ExitCodeReflectsOutcome ==
  pc = "exited" =>
    /\ exit_code = 0 <=> (err = "none" /\ summary)
    /\ err # "none" => (exit_code # 0 /\ stderr # <<>>)

====
